---- MODULE Spec2Model ----
(***************************************************************************)
(* Headless OAuth (authorization code + PKCE) and credential persistence   *)
(* of zotify: ZotifyAuth, ZotifyCredentials, generate_auth_url and the     *)
(* --generate-auth-url path of the command line.                           *)
(*                                                                         *)
(* Python values are represented as follows.                               *)
(*   None                  the string None (below)                         *)
(*   str                   a TLA+ string; an access token, whose bytes the *)
(*                         store encodes, is a sequence of code points     *)
(*   dict / JSON object    a function whose domain is the set of its keys  *)
(*   raise E(msg)          [kind |-> "raise", exc |-> E, msg |-> msg]      *)
(*   return v              [kind |-> "return", value |-> v]                *)
(***************************************************************************)
EXTENDS Integers, Sequences, FiniteSets, TLC

VARIABLES
    environ,   \* os.environ: HTTP_PROXY and HTTPS_PROXY, None when unset
    ctor,      \* the arguments the ZotifyAuth instance was constructed with
    auth,      \* the ZotifyAuth instance: client_id, redirect_uri,
               \* code_verifier, code_challenge, proxies
    pkce,      \* the pairs _generate_pkce returned during the last call
    fs,        \* the file system: path -> parsed JSON document, or NoFile
    saved,     \* path -> the credentials last saved there, or NotSaved
    last,      \* the last call: its name, arguments and the instance before
    ret,       \* how the last call ended: a return value or a raise
    http       \* the HTTP requests the last call issued, with their responses

vars == <<environ, ctor, auth, pkce, fs, saved, last, ret, http>>

None == "<None>"

\* Python truthiness of an optional string: None and "" are false.
Truthy(x) == x # None /\ x # ""

Return(v) == [kind |-> "return", value |-> v]

Raise(e, m) == [kind |-> "raise", exc |-> e, msg |-> m]

NoCall == [op |-> "none"]

NoResult == [kind |-> "none"]

(***************************************************************************)
(* ZotifyAuth                                                              *)
(***************************************************************************)
TOKEN_URL == "https://accounts.spotify.com/api/token"

AUTH_URL == "https://accounts.spotify.com/authorize"

USER_URL == "https://api.spotify.com/v1/me"

\* self.proxies = None
NoProxies == [none |-> TRUE]

getenv(env, name) == env[name]

\* ResolveProxies with the environment consulted before the parameter.
ResolveProxies_EnvFirst(proxy, env) ==
    IF Truthy(getenv(env, "HTTPS_PROXY"))
    THEN [http  |-> getenv(env, "HTTP_PROXY"),
          https |-> getenv(env, "HTTPS_PROXY")]
    ELSE IF Truthy(proxy)
         THEN [http |-> proxy, https |-> proxy]
         ELSE NoProxies

\* Lines 55-62: the explicit parameter, else the environment when HTTPS_PROXY
\* is truthy, else None.
ResolveProxies(proxy, env) ==
    IF Truthy(proxy)
    THEN [http |-> proxy, https |-> proxy]
    ELSE IF Truthy(getenv(env, "HTTPS_PROXY"))
         THEN [http  |-> getenv(env, "HTTP_PROXY"),
               https |-> getenv(env, "HTTPS_PROXY")]
         ELSE NoProxies

\* ZotifyAuth.__init__
ZotifyAuth(client_id, redirect_uri, proxy, env) ==
    [client_id      |-> client_id,
     redirect_uri   |-> redirect_uri,
     code_verifier  |-> None,
     code_challenge |-> None,
     proxies        |-> ResolveProxies(proxy, env)]

\* The verifiers secrets.token_urlsafe(64) may return.
Verifiers == {"v1", "v2"}

\* base64url(sha256(verifier)) without padding: a function of the verifier,
\* kept symbolic.
S256(verifier) == "S256(" \o verifier \o ")"

\* _generate_pkce with the random source's output given.
generate_pkce(random) == <<random, S256(random)>>

\* urlencode renders a value with str(): None becomes the text None.
UrlStr(v) == IF v = None THEN "None" ELSE v

\* get_auth_url, line 84: the instance with the new pair stored.
StorePkce(self, pair) ==
    [self EXCEPT !.code_verifier = pair[1], !.code_challenge = pair[2]]

\* get_auth_url, lines 86-95: the URL returned.
AuthUrl(self) ==
    [base   |-> AUTH_URL,
     params |-> [client_id             |-> UrlStr(self.client_id),
                 response_type         |-> "code",
                 redirect_uri          |-> UrlStr(self.redirect_uri),
                 code_challenge_method |-> "S256",
                 code_challenge        |-> UrlStr(self.code_challenge),
                 scope                 |-> "SCOPES"]]

\* get_auth_url as a whole: the instance after, and the value returned.
get_auth_url(self, random) ==
    LET after == StorePkce(self, generate_pkce(random))
    IN  [self |-> after,
         ret  |-> Return(AuthUrl(after)),
         pkce |-> <<generate_pkce(random)>>]


\* timeout=30 of both requests
TIMEOUT == 30

\* expires_in when the token response omits it
DEFAULT_EXPIRES_IN == 3600

\* The access token "AT1", as code points.
AT1 == <<65, 84, 49>>

\* "Bearer ", as code points.
BearerPrefix == <<66, 101, 97, 114, 101, 114, 32>>

\* dict.get(key, default)
Get(d, key, default) == IF key \in DOMAIN d THEN d[key] ELSE default

\* ZotifyCredentials.__init__
ZotifyCredentials(username, access_token, refresh_token, expires_in) ==
    [username      |-> username,
     access_token  |-> access_token,
     refresh_token |-> refresh_token,
     expires_in    |-> expires_in]

\* What an HTTP call can come to: requests raising (connection error,
\* timeout), or a response with a status and a body that is not JSON, a JSON
\* array, or a JSON object.
NetworkFailure == [kind |-> "failure"]

NonJson(status) == [kind |-> "response", status |-> status, json |-> "invalid"]

JsonArray(status) == [kind |-> "response", status |-> status, json |-> "array"]

JsonObject(status, obj) ==
    [kind |-> "response", status |-> status, json |-> "object", obj |-> obj]

TokenFieldValue ==
    [error             |-> "invalid_grant",
     error_description |-> "bad code",
     access_token      |-> AT1,
     refresh_token     |-> "RT1",
     expires_in        |-> 1800]

TokenKeySets ==
    { {"error"},
      {"error", "error_description"},
      {"error", "error_description", "access_token"},
      {"access_token"},
      {"access_token", "refresh_token"},
      {"access_token", "expires_in"},
      {"access_token", "refresh_token", "expires_in"},
      {},
      {"error_description"},
      {"refresh_token", "expires_in"} }

TokenObject(keys) == [k \in keys |-> TokenFieldValue[k]]

\* The answers of the token endpoint: any body with status 200, and the
\* error statuses with the bodies a failing service sends.
TokenResponses ==
    {NetworkFailure, NonJson(200), JsonArray(200), NonJson(500)}
    \cup {JsonObject(200, TokenObject(ks)) : ks \in TokenKeySets}
    \cup {JsonObject(400, TokenObject(ks)) :
            ks \in {{"error", "error_description"}, {}}}

UserFieldValue ==
    [id |-> "user42", email |-> "u@example.com", error |-> "401"]

UserObject(keys) == [k \in keys |-> UserFieldValue[k]]

\* The answers of the user-identity endpoint.
UserResponses ==
    {NetworkFailure, NonJson(200), JsonArray(200), NonJson(401)}
    \cup {JsonObject(200, UserObject(ks)) : ks \in SUBSET {"id", "email"}}
    \cup {JsonObject(401, UserObject({"error"}))}

\* ResolveVerifier with the operands of "or" exchanged.
ResolveVerifier_StoredFirst(code_verifier, stored) ==
    IF Truthy(stored) THEN stored ELSE code_verifier

\* Line 108: code_verifier or self.code_verifier
ResolveVerifier(code_verifier, stored) ==
    IF Truthy(code_verifier) THEN code_verifier ELSE stored

\* Lines 112-118: the form body of the token request.
TokenRequestData(self, code, verifier) ==
    [grant_type    |-> "authorization_code",
     code          |-> code,
     redirect_uri  |-> self.redirect_uri,
     client_id     |-> self.client_id,
     code_verifier |-> verifier]

\* Line 120: the token request.
TokenRequest(self, code, verifier, response) ==
    [method   |-> "POST",
     url      |-> TOKEN_URL,
     data     |-> TokenRequestData(self, code, verifier),
     proxies  |-> self.proxies,
     timeout  |-> TIMEOUT,
     response |-> response]

\* Lines 129-130: the user-identity request.
UserRequest(self, token_data, response) ==
    [method   |-> "GET",
     url      |-> USER_URL,
     headers  |-> [Authorization |-> BearerPrefix \o token_data["access_token"]],
     proxies  |-> self.proxies,
     timeout  |-> TIMEOUT,
     response |-> response]

\* TokenErrorMessage that never reads error_description.
TokenErrorMessage_RawError(token_data) ==
    "Token exchange failed: " \o token_data["error"]

\* Line 125: the message of the AuthenticationError.
TokenErrorMessage(token_data) ==
    "Token exchange failed: "
        \o Get(token_data, "error_description", token_data["error"])

\* Username with the two lookups exchanged.
Username_EmailFirst(user_data) ==
    Get(user_data, "email", Get(user_data, "id", "unknown"))

\* Line 134
Username(user_data) ==
    Get(user_data, "id", Get(user_data, "email", "unknown"))

\* Lines 133-138
CredentialsOf(token_data, user_data) ==
    ZotifyCredentials(Username(user_data),
                      token_data["access_token"],
                      Get(token_data, "refresh_token", None),
                      Get(token_data, "expires_in", DEFAULT_EXPIRES_IN))

Outcome(self, r, requests) == [self |-> self, ret |-> r, http |-> requests]

\* FetchUser reporting a missing access_token as an authentication failure.
FetchUser_AuthError(self, post, token_data, userResp) ==
    IF "access_token" \notin DOMAIN token_data
    THEN Outcome(self, Raise("AuthenticationError", "access_token"), <<post>>)
    ELSE Outcome(self,
                 Return(CredentialsOf(token_data, userResp.obj)),
                 <<post, UserRequest(self, token_data, userResp)>>)

\* Lines 128-138, once the token response holds no error: the direct lookup
\* of access_token, the identity request, the credentials.
FetchUser(self, post, token_data, userResp) ==
    IF "access_token" \notin DOMAIN token_data
    THEN Outcome(self, Raise("KeyError", "access_token"), <<post>>)
    ELSE
    LET get == UserRequest(self, token_data, userResp)
    IN  IF userResp.kind = "failure"
        THEN Outcome(self, Raise("RequestException", "GET"), <<post, get>>)
        ELSE IF userResp.json = "invalid"
        THEN Outcome(self, Raise("JSONDecodeError", "GET"), <<post, get>>)
        ELSE IF userResp.json = "array"
        THEN Outcome(self, Raise("AttributeError", "get"), <<post, get>>)
        ELSE Outcome(self,
                     Return(CredentialsOf(token_data, userResp.obj)),
                     <<post, get>>)

\* Lines 120-138: the token request and what follows it.
PostToken(self, code, verifier, tokenResp, userResp) ==
    LET post == TokenRequest(self, code, verifier, tokenResp)
    IN  IF tokenResp.kind = "failure"
        THEN Outcome(self, Raise("RequestException", "POST"), <<post>>)
        ELSE IF tokenResp.json = "invalid"
        THEN Outcome(self, Raise("JSONDecodeError", "POST"), <<post>>)
        ELSE IF tokenResp.json = "array"
        THEN Outcome(self, Raise("TypeError", "access_token"), <<post>>)
        ELSE IF "error" \in DOMAIN tokenResp.obj
        THEN Outcome(self,
                     Raise("AuthenticationError",
                           TokenErrorMessage(tokenResp.obj)),
                     <<post>>)
        ELSE FetchUser(self, post, tokenResp.obj, userResp)

\* exchange_code without the check of line 109.
exchange_code_Unchecked(self, code, code_verifier, tokenResp, userResp) ==
    PostToken(self, code, ResolveVerifier(code_verifier, self.code_verifier),
              tokenResp, userResp)

\* ZotifyAuth.exchange_code: the instance after, how the call ends, and the
\* requests it issued. tokenResp and userResp are what the two endpoints
\* answer when asked.
exchange_code(self, code, code_verifier, tokenResp, userResp) ==
    LET verifier == ResolveVerifier(code_verifier, self.code_verifier)
    IN  IF ~Truthy(verifier)
        THEN Outcome(self,
                     Raise("ValueError", "code_verifier is required"),
                     <<>>)
        ELSE PostToken(self, code, verifier, tokenResp, userResp)

\* Module-level generate_auth_url: a new instance, its URL and its verifier.
generate_auth_url(client_id, redirect_uri, env, random) ==
    LET made == get_auth_url(ZotifyAuth(client_id, redirect_uri, None, env),
                             random)
    IN  [ret  |-> Return(<<made.ret.value, made.self.code_verifier>>),
         pkce |-> made.pkce]


(***************************************************************************)
(* ZotifyCredentials: save and load                                        *)
(*                                                                         *)
(* Text and bytes are sequences of code points and of byte values. A file  *)
(* holds the JSON document json.dump wrote: [exists |-> TRUE, json |-> d]. *)
(***************************************************************************)
Ok(v) == [ok |-> TRUE, value |-> v]

Err(e) == [ok |-> FALSE, exc |-> e]

\* str.encode(): UTF-8 of code points below 2048.
RECURSIVE Utf8Encode(_)
Utf8Encode(s) ==
    IF s = <<>> THEN <<>>
    ELSE (IF Head(s) < 128
          THEN <<Head(s)>>
          ELSE <<192 + (Head(s) \div 64), 128 + (Head(s) % 64)>>)
         \o Utf8Encode(Tail(s))

\* bytes.decode(): strict UTF-8, one- and two-byte sequences. One step reads
\* the character at st.i.
Utf8Step(b, st) ==
    IF b[st.i] < 128
    THEN [i |-> st.i + 1, out |-> Append(st.out, b[st.i]), ok |-> TRUE]
    ELSE IF /\ b[st.i] >= 194 /\ b[st.i] <= 223
            /\ st.i < Len(b) /\ b[st.i + 1] >= 128 /\ b[st.i + 1] <= 191
    THEN [i   |-> st.i + 2,
          out |-> Append(st.out, (b[st.i] - 192) * 64 + (b[st.i + 1] - 128)),
          ok  |-> TRUE]
    ELSE [st EXCEPT !.ok = FALSE]

RECURSIVE Utf8Scan(_, _)
Utf8Scan(b, st) ==
    IF ~st.ok \/ st.i > Len(b) THEN st ELSE Utf8Scan(b, Utf8Step(b, st))

Utf8Decode(b) ==
    LET st == Utf8Scan(b, [i |-> 1, out |-> <<>>, ok |-> TRUE])
    IN  IF st.ok THEN Ok(st.out) ELSE Err("UnicodeDecodeError")

\* bytes.decode('ascii')
AsciiDecode(b) ==
    IF \A i \in 1..Len(b) : b[i] < 128 THEN Ok(b) ELSE Err("UnicodeDecodeError")

\* The base64 alphabet: A-Z, a-z, 0-9, + and /.
B64Char(i) ==
    IF i < 26 THEN 65 + i
    ELSE IF i < 52 THEN 97 + (i - 26)
    ELSE IF i < 62 THEN 48 + (i - 52)
    ELSE IF i = 62 THEN 43 ELSE 47

\* The value of a character of the alphabet, -1 for any other character.
B64Index(c) ==
    IF c >= 65 /\ c <= 90 THEN c - 65
    ELSE IF c >= 97 /\ c <= 122 THEN c - 97 + 26
    ELSE IF c >= 48 /\ c <= 57 THEN c - 48 + 52
    ELSE IF c = 43 THEN 62
    ELSE IF c = 47 THEN 63 ELSE -1

\* The padding character "=".
B64Pad == 61

\* base64.b64encode: three bytes to four characters, the rest padded.
RECURSIVE b64encode(_)
b64encode(b) ==
    IF Len(b) = 0 THEN <<>>
    ELSE IF Len(b) = 1
    THEN <<B64Char(b[1] \div 4), B64Char((b[1] % 4) * 16), B64Pad, B64Pad>>
    ELSE IF Len(b) = 2
    THEN <<B64Char(b[1] \div 4),
           B64Char((b[1] % 4) * 16 + (b[2] \div 16)),
           B64Char((b[2] % 16) * 4),
           B64Pad>>
    ELSE <<B64Char(b[1] \div 4),
           B64Char((b[1] % 4) * 16 + (b[2] \div 16)),
           B64Char((b[2] % 16) * 4 + (b[3] \div 64)),
           B64Char(b[3] % 64)>>
         \o b64encode(SubSeq(b, 4, Len(b)))

\* binascii.a2b_base64, not strict, one character: a character outside the
\* alphabet is skipped, a completed pad sequence ends the input.
a2b_step(st, ch) ==
    IF ch = B64Pad
    THEN IF st.quad_pos >= 2 /\ st.quad_pos + st.pads + 1 >= 4
         THEN [st EXCEPT !.done = TRUE]
         ELSE IF st.quad_pos >= 2
              THEN [st EXCEPT !.pads = st.pads + 1]
              ELSE st
    ELSE IF B64Index(ch) = -1
    THEN st
    ELSE
    LET d == B64Index(ch)
    IN  IF st.quad_pos = 0
        THEN [st EXCEPT !.quad_pos = 1, !.pads = 0, !.left = d]
        ELSE IF st.quad_pos = 1
        THEN [st EXCEPT !.quad_pos = 2, !.pads = 0, !.left = d % 16,
                        !.out = Append(st.out, st.left * 4 + (d \div 16))]
        ELSE IF st.quad_pos = 2
        THEN [st EXCEPT !.quad_pos = 3, !.pads = 0, !.left = d % 4,
                        !.out = Append(st.out, st.left * 16 + (d \div 4))]
        ELSE [st EXCEPT !.quad_pos = 0, !.pads = 0, !.left = 0,
                        !.out = Append(st.out, st.left * 64 + d)]

RECURSIVE a2b_scan(_, _, _)
a2b_scan(s, i, st) ==
    IF st.done \/ i > Len(s) THEN st ELSE a2b_scan(s, i + 1, a2b_step(st, s[i]))

\* binascii.a2b_base64: input that ends inside a quad is an error.
a2b_base64(s) ==
    LET st == a2b_scan(s, 1, [quad_pos |-> 0, pads |-> 0, left |-> 0,
                              out |-> <<>>, done |-> FALSE])
    IN  IF ~st.done /\ st.quad_pos # 0
        THEN Err("binascii.Error")
        ELSE Ok(st.out)

\* base64.b64decode of a str: the text must be ASCII.
b64decode(s) ==
    IF \E i \in 1..Len(s) : s[i] >= 128
    THEN Err("ValueError")
    ELSE a2b_base64(s)

\* The exception classes above that are subclasses of ValueError.
ValueErrors ==
    {"ValueError", "binascii.Error", "UnicodeDecodeError", "JSONDecodeError"}

\* "type" of the stored record
AUTHENTICATION_SPOTIFY_TOKEN == "AUTHENTICATION_SPOTIFY_TOKEN"

\* The JSON texts json.loads is given here, with the values it returns for
\* them; it raises JSONDecodeError for any other text considered.
JsonTexts ==
    { \* {"username": "alice", "credentials": "tok123"}
      [text  |-> <<123, 34, 117, 115, 101, 114, 110, 97, 109, 101, 34, 58, 32,
                   34, 97, 108, 105, 99, 101, 34, 44, 32, 34, 99, 114, 101,
                   100, 101, 110, 116, 105, 97, 108, 115, 34, 58, 32, 34, 116,
                   111, 107, 49, 50, 51, 34, 125>>,
       kind  |-> "object",
       value |-> [username    |-> "alice",
                  credentials |-> <<116, 111, 107, 49, 50, 51>>]],
      \* {"username": "bob"}
      [text  |-> <<123, 34, 117, 115, 101, 114, 110, 97, 109, 101, 34, 58, 32,
                   34, 98, 111, 98, 34, 125>>,
       kind  |-> "object",
       value |-> [username |-> "bob"]],
      \* {}
      [text  |-> <<123, 125>>,
       kind  |-> "object",
       value |-> [k \in {} |-> None]],
      \* []
      [text  |-> <<91, 93>>,
       kind  |-> "array",
       value |-> <<>>] }

json_loads(text) ==
    IF \E e \in JsonTexts : e.text = text
    THEN Ok(CHOOSE e \in JsonTexts : e.text = text)
    ELSE Err("JSONDecodeError")

File(doc) == [exists |-> TRUE, json |-> doc]

\* StoredRecord with the access token written as it is, not in base64.
StoredRecord_Plain(self) ==
    [username    |-> self.username,
     credentials |-> self.access_token,
     type        |-> AUTHENTICATION_SPOTIFY_TOKEN]

\* save, lines 162-168: the record written.
StoredRecord(self) ==
    [username    |-> self.username,
     credentials |-> Utf8Decode(b64encode(Utf8Encode(self.access_token))).value,
     type        |-> AUTHENTICATION_SPOTIFY_TOKEN]

\* ZotifyCredentials.save: open(path, 'w') replaces the file.
save(self, files, path) ==
    [fs  |-> [files EXCEPT ![path] = File(StoredRecord(self))],
     ret |-> Return(None)]

\* load, lines 189-195: the current format.
LoadCurrent(data) ==
    LET raw == b64decode(data["credentials"])
    IN  IF ~raw.ok THEN Raise(raw.exc, "credentials")
        ELSE LET access_token == Utf8Decode(raw.value)
             IN  IF ~access_token.ok
                 THEN Raise(access_token.exc, "credentials")
                 ELSE Return(ZotifyCredentials(
                                 Get(data, "username", "unknown"),
                                 access_token.value,
                                 None,
                                 DEFAULT_EXPIRES_IN))

\* load, lines 198-203: the legacy format.
LoadLegacy(data) ==
    LET raw == b64decode(data["credentials"])
    IN  IF ~raw.ok THEN Raise(raw.exc, "credentials")
        ELSE LET text == AsciiDecode(raw.value)
             IN  IF ~text.ok THEN Raise(text.exc, "credentials")
        ELSE LET decoded == json_loads(text.value)
             IN  IF ~decoded.ok THEN Raise(decoded.exc, "credentials")
        ELSE IF decoded.value.kind # "object"
             THEN Raise("AttributeError", "get")
        ELSE Return(ZotifyCredentials(
                        Get(decoded.value.value, "username", "unknown"),
                        Get(decoded.value.value, "credentials", <<>>),
                        None,
                        DEFAULT_EXPIRES_IN))

\* Line 189
IsCurrentFormat(data) ==
    /\ "username" \in DOMAIN data
    /\ "credentials" \in DOMAIN data
    /\ "type" \in DOMAIN data

\* IsLegacyFormat without the test for a top-level username.
IsLegacyFormat_AnyCredentials(data) == "credentials" \in DOMAIN data

\* Line 198
IsLegacyFormat(data) ==
    "credentials" \in DOMAIN data /\ "username" \notin DOMAIN data

\* ZotifyCredentials.load
load(files, path) ==
    IF ~files[path].exists
    THEN Raise("FileNotFoundError", path)
    ELSE LET data == files[path].json
         IN  IF IsCurrentFormat(data) THEN LoadCurrent(data)
             ELSE IF IsLegacyFormat(data) THEN LoadLegacy(data)
             ELSE Raise("ValueError", "Invalid credentials file format")

(***************************************************************************)
(* The command line: main and handle_generate_auth_url                     *)
(***************************************************************************)
\* Zotify.generate_auth_url of zotify.config: the function that produces
\* (url, verifier) from (client_id, redirect_uri).
Zotify_generate_auth_url(client_id, redirect_uri, env, random) ==
    generate_auth_url(client_id, redirect_uri, env, random)

\* What a run of the command line comes to: what it printed, whether the
\* download client ran, the PKCE pairs generated.
CliOutcome(stdout, client, pairs) ==
    [ret  |-> [kind |-> "return", value |-> None,
               stdout |-> stdout, client |-> client],
     pkce |-> pairs]

handle_generate_auth_url(args, env, random) ==
    IF ~Truthy(args.client_id)
    THEN CliOutcome(
             <<"Error: --client-id is required for --generate-auth-url">>,
             FALSE, <<>>)
    ELSE IF ~Truthy(args.oauth_redirect_uri)
    THEN CliOutcome(
             <<"Error: --oauth-redirect-uri is required for --generate-auth-url">>,
             FALSE, <<>>)
    ELSE
    LET made == Zotify_generate_auth_url(args.client_id,
                                         args.oauth_redirect_uri, env, random)
    IN  CliOutcome(<<"OAuth URL", made.ret.value[1],
                     "Code Verifier", made.ret.value[2],
                     "Instructions">>,
                   FALSE, made.pkce)

\* main, lines 123-135: the URL mode returns before args.func, the download
\* client, is called.
main(args, env, random) ==
    IF args.generate_auth_url
    THEN handle_generate_auth_url(args, env, random)
    ELSE CliOutcome(<<"\n">>, TRUE, <<>>)

(***************************************************************************)
(* The authentication flow as a state machine                              *)
(***************************************************************************)
Paths == {"p1", "p2"}

NoFile == [exists |-> FALSE]

NotSaved == [saved |-> FALSE]

NoEnv == [HTTP_PROXY |-> None, HTTPS_PROXY |-> None]

\* The environments a process may start in.
Environs ==
    [HTTP_PROXY : {None, "http://hp"}, HTTPS_PROXY : {None, "", "http://hs"}]

\* The constructor calls considered: every proxy argument with a client_id
\* and a redirect_uri in every environment, and a missing client_id or
\* redirect_uri without a proxy in the empty environment.
ProxyCtorArgs ==
    [client_id : {"cid"}, redirect_uri : {"uri"},
     proxy : {None, "", "http://px"}]

MissingCtorArgs ==
    {[client_id |-> None, redirect_uri |-> "uri", proxy |-> None],
     [client_id |-> "cid", redirect_uri |-> None, proxy |-> None]}

Codes == {"AQD"}

\* The code_verifier argument of exchange_code: omitted, empty, or given.
VerifierArgs == {None, "", "vx"}

CliArgs ==
    [generate_auth_url : BOOLEAN,
     client_id : {None, "", "cid"},
     oauth_redirect_uri : {None, "uri"}]

Init ==
    /\ \/ environ \in Environs /\ ctor \in ProxyCtorArgs
       \/ environ = NoEnv /\ ctor \in MissingCtorArgs
    /\ auth = ZotifyAuth(ctor.client_id, ctor.redirect_uri, ctor.proxy, environ)
    /\ pkce = <<>>
    /\ fs = [p \in Paths |-> NoFile]
    /\ saved = [p \in Paths |-> NotSaved]
    /\ last = NoCall
    /\ ret = NoResult
    /\ http = <<>>

GetAuthUrl ==
    \E random \in Verifiers :
        LET out == get_auth_url(auth, random)
        IN  /\ auth' = out.self
            /\ pkce' = out.pkce
            /\ ret' = out.ret
            /\ http' = <<>>
            /\ last' = [op |-> "get_auth_url", self |-> auth]
            /\ UNCHANGED <<environ, ctor, fs, saved>>

\* An endpoint answers only when asked: the answers to draw for a call that
\* issues its token request, and for one that goes on to the identity request.
TokenAnswers(self, code, code_verifier) ==
    IF exchange_code(self, code, code_verifier,
                     NetworkFailure, NetworkFailure).http = <<>>
    THEN {NetworkFailure}
    ELSE TokenResponses

UserAnswers(self, code, code_verifier, tokenResp) ==
    IF Len(exchange_code(self, code, code_verifier,
                         tokenResp, NetworkFailure).http) < 2
    THEN {NetworkFailure}
    ELSE UserResponses

ExchangeCode ==
    \E code \in Codes, code_verifier \in VerifierArgs :
    \E tokenResp \in TokenAnswers(auth, code, code_verifier) :
    \E userResp \in UserAnswers(auth, code, code_verifier, tokenResp) :
        LET out == exchange_code(auth, code, code_verifier, tokenResp, userResp)
        IN  /\ auth' = out.self
            /\ pkce' = <<>>
            /\ ret' = out.ret
            /\ http' = out.http
            /\ last' = [op |-> "exchange_code", self |-> auth, code |-> code,
                        code_verifier |-> code_verifier]
            /\ UNCHANGED <<environ, ctor, fs, saved>>

GenerateAuthUrl ==
    \E client_id \in {None, "cid"}, redirect_uri \in {None, "uri"},
       random \in Verifiers :
        LET out == generate_auth_url(client_id, redirect_uri, environ, random)
        IN  /\ pkce' = out.pkce
            /\ ret' = out.ret
            /\ http' = <<>>
            /\ last' = [op |-> "generate_auth_url", self |-> auth,
                        client_id |-> client_id,
                        redirect_uri |-> redirect_uri]
            /\ UNCHANGED <<environ, ctor, auth, fs, saved>>

Main ==
    \E args \in CliArgs, random \in Verifiers :
        LET out == main(args, environ, random)
        IN  /\ pkce' = out.pkce
            /\ ret' = out.ret
            /\ http' = <<>>
            /\ last' = [op |-> "main", self |-> auth, args |-> args]
            /\ UNCHANGED <<environ, ctor, auth, fs, saved>>

Next == GetAuthUrl \/ ExchangeCode \/ GenerateAuthUrl \/ Main

Spec == Init /\ [][Next]_vars


(***************************************************************************)
(* The credential store as a state machine                                 *)
(***************************************************************************)
\* The longest access token saved, in code points.
MaxTokenLen == 2

\* The characters of the access tokens saved: "A" and "é" (two bytes in
\* UTF-8).
TokenChars == {65, 233}

RECURSIVE TokensOfLen(_)
TokensOfLen(n) ==
    IF n = 0 THEN {<<>>}
    ELSE {Append(t, c) : t \in TokensOfLen(n - 1), c \in TokenChars}

Tokens == UNION {TokensOfLen(n) : n \in 0..MaxTokenLen}

\* The credentials saved: any username and token, with and without the
\* fields the stored record leaves out.
CredentialsValues ==
    {ZotifyCredentials(u, t, r[1], r[2]) :
        u \in {"user42", "unknown"}, t \in Tokens,
        r \in {<<None, DEFAULT_EXPIRES_IN>>, <<"RT1", 1800>>}}

\* The values of "credentials" in the files found on disk: base64 of "A", of
\* "é" in UTF-8, of the byte E9, of each text of JsonTexts but the last, of
\* the text [], and "QQ", whose padding is missing.
CredentialTexts ==
    { <<81, 81, 61, 61>>,
      <<119, 54, 107, 61>>,
      <<54, 81, 61, 61>>,
      <<101, 121, 74, 49, 99, 50, 86, 121, 98, 109, 70, 116, 90, 83, 73, 54,
        73, 67, 74, 104, 98, 71, 108, 106, 90, 83, 73, 115, 73, 67, 74, 106,
        99, 109, 86, 107, 90, 87, 53, 48, 97, 87, 70, 115, 99, 121, 73, 54,
        73, 67, 74, 48, 98, 50, 115, 120, 77, 106, 77, 105, 102, 81, 61, 61>>,
      <<101, 121, 74, 49, 99, 50, 86, 121, 98, 109, 70, 116, 90, 83, 73, 54,
        73, 67, 74, 105, 98, 50, 73, 105, 102, 81, 61, 61>>,
      <<101, 51, 48, 61>>,
      <<87, 49, 48, 61>>,
      <<81, 81>> }

\* The JSON objects found on disk: every subset of username, credentials and
\* type, and {"foo": "bar"}.
FoundDocuments ==
    {[k \in ks |-> IF k = "username" THEN "carol"
                   ELSE AUTHENTICATION_SPOTIFY_TOKEN] :
        ks \in SUBSET {"username", "type"}}
    \cup {[k \in ks \cup {"credentials"} |->
              IF k = "username" THEN "carol"
              ELSE IF k = "type" THEN AUTHENTICATION_SPOTIFY_TOKEN
              ELSE c] :
            ks \in SUBSET {"username", "type"}, c \in CredentialTexts}
    \cup {[foo |-> "bar"]}

DefaultCtor == [client_id |-> "cid", redirect_uri |-> "uri", proxy |-> None]

StoreInit ==
    /\ environ = NoEnv
    /\ ctor = DefaultCtor
    /\ auth = ZotifyAuth(ctor.client_id, ctor.redirect_uri, ctor.proxy, environ)
    /\ pkce = <<>>
    /\ \E f \in {NoFile} \cup {File(d) : d \in FoundDocuments} :
           fs = [p \in Paths |-> IF p = "p1" THEN f ELSE NoFile]
    /\ saved = [p \in Paths |-> NotSaved]
    /\ last = NoCall
    /\ ret = NoResult
    /\ http = <<>>

Save ==
    \E c \in CredentialsValues, path \in Paths :
        LET out == save(c, fs, path)
        IN  /\ fs' = out.fs
            /\ ret' = out.ret
            /\ saved' = [saved EXCEPT ![path] = c]
            /\ last' = [op |-> "save", self |-> c, path |-> path]
            /\ UNCHANGED <<environ, ctor, auth, pkce, http>>

Load ==
    \E path \in Paths :
        /\ ret' = load(fs, path)
        /\ last' = [op |-> "load", path |-> path, file |-> fs[path]]
        /\ UNCHANGED <<environ, ctor, auth, pkce, fs, saved, http>>

StoreNext == Save \/ Load

StoreSpec == StoreInit /\ [][StoreNext]_vars


(***************************************************************************)
(* The claims                                                              *)
(*                                                                         *)
(* The exception classes of the code stand for the error kinds of the      *)
(* specification: ValueError raised by exchange_code is ConfigurationError,*)
(* ValueError raised by load is FormatError, and any class other than      *)
(* ValueError and AuthenticationError is a transport-level error.          *)
(***************************************************************************)
\* The response of the i-th request of the last call.
ResponseOf(i) == http[i].response

\* A response whose body is a JSON object.
IsObject(resp) == resp.kind = "response" /\ resp.json = "object"

\* A network failure or a status outside 2xx.
HttpFailed(resp) ==
    resp.kind = "failure" \/ resp.status < 200 \/ resp.status > 299

\* C1 (as amended): the code_verifier of the token POST is the explicit
\* argument when one is given and is not empty, otherwise the stored
\* verifier; after get_auth_url the stored verifier is the one that call
\* generated; exchange_code, and every call that is not get_auth_url on this
\* instance, leaves the stored verifier as it was.
C1_VerifierSentAndStored ==
    /\ (last.op = "exchange_code" /\ http # <<>>) =>
           http[1].data.code_verifier =
               (IF last.code_verifier \notin {None, ""}
                THEN last.code_verifier
                ELSE last.self.code_verifier)
    /\ last.op = "get_auth_url" =>
           /\ Len(pkce) = 1
           /\ auth.code_verifier = pkce[1][1]
           /\ ret.value.params.code_challenge = pkce[1][2]
    /\ last.op \in {"exchange_code", "generate_auth_url", "main"} =>
           auth.code_verifier = last.self.code_verifier

\* C1 as stated: the explicit argument is sent whenever one is given.
C1_ExplicitArgumentAlwaysSent ==
    (last.op = "exchange_code" /\ http # <<>>) =>
        http[1].data.code_verifier =
            (IF last.code_verifier # None
             THEN last.code_verifier
             ELSE last.self.code_verifier)

\* An exchange given an empty verifier sent the verifier that the second of
\* two get_auth_url calls stored.
C1_Witness ==
    /\ last.op = "exchange_code"
    /\ last.code_verifier = ""
    /\ Len(http) >= 1
    /\ http[1].data.code_verifier = "v2"
    /\ auth.code_verifier = "v2"

\* C2: exchange_code without a verifier, on an instance that stores none
\* (get_auth_url never ran), raises ValueError before any request is issued
\* and returns no credentials.
C2_NoVerifierFailsBeforeAnyRequest ==
    (/\ last.op = "exchange_code"
     /\ last.code_verifier = None
     /\ last.self.code_verifier = None) =>
        /\ ret.kind = "raise"
        /\ ret.exc = "ValueError"
        /\ http = <<>>

C2_Witness ==
    /\ last.op = "exchange_code"
    /\ last.code_verifier = None
    /\ last.self.code_verifier = None
    /\ ret.kind = "raise"

\* C3 (as amended): a token response with an error field makes exchange_code
\* raise AuthenticationError whose message is "Token exchange failed: "
\* followed by the error_description if present, else by the error code; the
\* identity GET is not issued and nothing is returned.
C3_ErrorPayloadRaisesAuthenticationError ==
    (/\ last.op = "exchange_code"
     /\ Len(http) >= 1
     /\ IsObject(ResponseOf(1))
     /\ "error" \in DOMAIN ResponseOf(1).obj) =>
        /\ ret.kind = "raise"
        /\ ret.exc = "AuthenticationError"
        /\ ret.msg = (IF "error_description" \in DOMAIN ResponseOf(1).obj
                      THEN "Token exchange failed: bad code"
                      ELSE "Token exchange failed: invalid_grant")
        /\ Len(http) = 1

\* C3 as stated: the message is the error_description itself ("bad code"),
\* else the raw error code.
C3_MessageIsTheDescription ==
    (/\ last.op = "exchange_code"
     /\ Len(http) >= 1
     /\ IsObject(ResponseOf(1))
     /\ "error" \in DOMAIN ResponseOf(1).obj) =>
        /\ ret.kind = "raise"
        /\ ret.exc = "AuthenticationError"
        /\ ret.msg = (IF "error_description" \in DOMAIN ResponseOf(1).obj
                      THEN "bad code"
                      ELSE "invalid_grant")

C3_Witness ==
    /\ last.op = "exchange_code"
    /\ Len(http) = 1
    /\ IsObject(ResponseOf(1))
    /\ DOMAIN ResponseOf(1).obj = {"error", "error_description"}
    /\ ret.kind = "raise"
    /\ ret.msg = "Token exchange failed: bad code"

\* C4: each exchange_code call issues at most one POST and at most one GET,
\* the GET after the POST, and a network failure or a status outside 2xx on
\* either call ends the exchange with an error that is not
\* AuthenticationError, not with credentials. A failing token response that
\* carries an OAuth error payload is left out, since AuthenticationError is
\* reserved for it.
C4_FailedCallEndsInTransportError ==
    last.op = "exchange_code" =>
        /\ Len(http) <= 2
        /\ Len(http) >= 1 => http[1].method = "POST"
        /\ Len(http) = 2 => http[2].method = "GET"
        /\ (/\ \E i \in 1..Len(http) : HttpFailed(ResponseOf(i))
            /\ ~(IsObject(ResponseOf(1)) /\ "error" \in DOMAIN ResponseOf(1).obj)) =>
               /\ ret.kind = "raise"
               /\ ret.exc # "AuthenticationError"

\* C5: a token response without error that holds access_token is followed by
\* the identity GET with that token as Bearer token, and when the identity
\* response is a JSON object exchange_code returns credentials with
\* username = id, else email, else "unknown"; the response's access_token;
\* its refresh_token or None; its expires_in or 3600. Nothing else makes
\* exchange_code return.
C5_CredentialsFromResponses ==
    last.op = "exchange_code" =>
        /\ (/\ Len(http) >= 1
            /\ IsObject(ResponseOf(1))
            /\ "error" \notin DOMAIN ResponseOf(1).obj
            /\ "access_token" \in DOMAIN ResponseOf(1).obj) =>
               LET t == ResponseOf(1).obj
               IN  /\ Len(http) = 2
                   /\ http[2].headers.Authorization
                          = <<66, 101, 97, 114, 101, 114, 32>> \o t.access_token
                   /\ IsObject(ResponseOf(2)) =>
                          LET u == ResponseOf(2).obj
                          IN  ret = Return(
                                  [username |->
                                       IF "id" \in DOMAIN u THEN "user42"
                                       ELSE IF "email" \in DOMAIN u
                                            THEN "u@example.com"
                                            ELSE "unknown",
                                   access_token |-> t.access_token,
                                   refresh_token |->
                                       IF "refresh_token" \in DOMAIN t
                                       THEN "RT1" ELSE None,
                                   expires_in |->
                                       IF "expires_in" \in DOMAIN t
                                       THEN 1800 ELSE 3600])
        /\ ret.kind = "return" =>
               /\ Len(http) = 2
               /\ IsObject(ResponseOf(1))
               /\ IsObject(ResponseOf(2))
               /\ "error" \notin DOMAIN ResponseOf(1).obj

\* Credentials returned with the email as username and both defaults.
C5_Witness ==
    /\ last.op = "exchange_code"
    /\ ret.kind = "return"
    /\ ret.value.username = "u@example.com"
    /\ ret.value.refresh_token = None
    /\ ret.value.expires_in = 3600
    /\ ret.value.access_token = <<65, 84, 49>>

\* C6: a token response with neither error nor access_token makes
\* exchange_code raise KeyError, which is neither AuthenticationError nor the
\* ValueError of a missing verifier; the identity GET is not issued and
\* nothing is returned.
C6_MissingAccessTokenRaisesDistinctError ==
    (/\ last.op = "exchange_code"
     /\ Len(http) >= 1
     /\ IsObject(ResponseOf(1))
     /\ "error" \notin DOMAIN ResponseOf(1).obj
     /\ "access_token" \notin DOMAIN ResponseOf(1).obj) =>
        /\ ret.kind = "raise"
        /\ ret.exc = "KeyError"
        /\ ret.exc \notin ValueErrors \cup {"AuthenticationError"}
        /\ Len(http) = 1

C6_Witness ==
    /\ last.op = "exchange_code"
    /\ Len(http) = 1
    /\ IsObject(ResponseOf(1))
    /\ DOMAIN ResponseOf(1).obj = {"refresh_token", "expires_in"}
    /\ ret.kind = "raise"
    /\ ret.exc = "KeyError"

\* C9: URL generation with a missing client_id or redirect_uri fails with
\* ConfigurationError and generates no PKCE pair, URL or verifier, through
\* get_auth_url and generate_auth_url; the command line reports the error,
\* generates nothing and does not run the download client.
C9_MissingConfigurationRejected ==
    /\ (/\ last.op = "get_auth_url"
        /\ (last.self.client_id = None \/ last.self.redirect_uri = None)) =>
           /\ ret.kind = "raise"
           /\ ret.exc = "ValueError"
           /\ pkce = <<>>
    /\ (/\ last.op = "generate_auth_url"
        /\ (last.client_id = None \/ last.redirect_uri = None)) =>
           /\ ret.kind = "raise"
           /\ ret.exc = "ValueError"
           /\ pkce = <<>>
    /\ (/\ last.op = "main"
        /\ last.args.generate_auth_url
        /\ (last.args.client_id = None \/ last.args.oauth_redirect_uri = None)) =>
           /\ pkce = <<>>
           /\ ~ret.client
           /\ Len(ret.stdout) = 1
    /\ (last.op = "main" /\ last.args.generate_auth_url) => ~ret.client

\* C10 (as amended): the proxies of the instance are, at all times, those
\* resolved from the constructor argument and the environment: a proxy
\* argument that is given and not empty fills both slots; otherwise a
\* HTTPS_PROXY that is set and not empty takes both slots from the
\* environment, the http slot from HTTP_PROXY even when unset; otherwise the
\* proxies are None. Every request of an exchange is sent with them.
C10_ProxiesResolvedOnce ==
    /\ auth.proxies =
           (IF ctor.proxy \notin {None, ""}
            THEN [http |-> ctor.proxy, https |-> ctor.proxy]
            ELSE IF environ.HTTPS_PROXY \notin {None, ""}
                 THEN [http  |-> environ.HTTP_PROXY,
                       https |-> environ.HTTPS_PROXY]
                 ELSE [none |-> TRUE])
    /\ \A i \in 1..Len(http) : http[i].proxies = auth.proxies

\* C10 as stated: a proxy argument that is given wins, and HTTPS_PROXY counts
\* whenever it is set.
C10_GivenOrSetDecides ==
    auth.proxies =
        (IF ctor.proxy # None
         THEN [http |-> ctor.proxy, https |-> ctor.proxy]
         ELSE IF environ.HTTPS_PROXY # None
              THEN [http  |-> environ.HTTP_PROXY,
                    https |-> environ.HTTPS_PROXY]
              ELSE [none |-> TRUE])

\* Both requests of an exchange went through the environment's proxies, the
\* http slot unset, on an instance constructed with an empty proxy argument.
C10_Witness ==
    /\ last.op = "exchange_code"
    /\ Len(http) = 2
    /\ ctor.proxy = ""
    /\ environ.HTTP_PROXY = None
    /\ http[1].proxies = [http |-> None, https |-> "http://hs"]
    /\ http[2].proxies = [http |-> None, https |-> "http://hs"]

\* C7: load of a path returns the username and the access_token of the
\* credentials last saved there, with refresh_token None and expires_in 3600
\* whatever the saved credentials held.
C7_SaveLoadRoundTrip ==
    (last.op = "load" /\ saved[last.path] # NotSaved) =>
        ret = Return([username      |-> saved[last.path].username,
                      access_token  |-> saved[last.path].access_token,
                      refresh_token |-> None,
                      expires_in    |-> 3600])

\* A load returned the token "éA" of credentials saved with a refresh token.
C7_Witness ==
    /\ last.op = "load"
    /\ saved[last.path] # NotSaved
    /\ saved[last.path].refresh_token = "RT1"
    /\ saved[last.path].expires_in = 1800
    /\ saved[last.path].access_token = <<233, 65>>
    /\ ret.kind = "return"
    /\ ret.value.access_token = <<233, 65>>

\* What load returns for the legacy files on disk whose credentials decode
\* to a JSON object: {"username": "alice", "credentials": "tok123"},
\* {"username": "bob"} and {}.
C8_LegacyExpected(credentials) ==
    IF credentials =
        <<101, 121, 74, 49, 99, 50, 86, 121, 98, 109, 70, 116, 90, 83, 73, 54,
          73, 67, 74, 104, 98, 71, 108, 106, 90, 83, 73, 115, 73, 67, 74, 106,
          99, 109, 86, 107, 90, 87, 53, 48, 97, 87, 70, 115, 99, 121, 73, 54,
          73, 67, 74, 48, 98, 50, 115, 120, 77, 106, 77, 105, 102, 81, 61, 61>>
    THEN <<"alice", <<116, 111, 107, 49, 50, 51>>>>
    ELSE IF credentials =
        <<101, 121, 74, 49, 99, 50, 86, 121, 98, 109, 70, 116, 90, 83, 73, 54,
          73, 67, 74, 105, 98, 50, 73, 105, 102, 81, 61, 61>>
    THEN <<"bob", <<>>>>
    ELSE IF credentials = <<101, 51, 48, 61>>
    THEN <<"unknown", <<>>>>
    ELSE <<>>

\* C8: load dispatches on the keys of the stored object. With username,
\* credentials and type it returns the top-level username and the token whose
\* base64 is credentials (it raises a ValueError when credentials does not
\* decode); with credentials and no username it returns the username and
\* credentials of the inner JSON object, "unknown" and "" when missing (it
\* raises when credentials holds no JSON object); any other object raises
\* ValueError: Invalid credentials file format.
C8_LoadDispatch ==
    (last.op = "load" /\ last.file.exists) =>
        LET data == last.file.json
            keys == DOMAIN data \cap {"username", "credentials", "type"}
        IN  IF keys = {"username", "credentials", "type"}
            THEN IF data.credentials \in {<<54, 81, 61, 61>>, <<81, 81>>}
                 THEN ret.kind = "raise" /\ ret.exc \in ValueErrors
                 ELSE /\ ret.kind = "return"
                      /\ ret.value.username = data.username
                      /\ b64encode(Utf8Encode(ret.value.access_token))
                             = data.credentials
                      /\ ret.value.refresh_token = None
                      /\ ret.value.expires_in = 3600
            ELSE IF "credentials" \in keys /\ "username" \notin keys
            THEN IF C8_LegacyExpected(data.credentials) # <<>>
                 THEN ret = Return(
                          [username |-> C8_LegacyExpected(data.credentials)[1],
                           access_token |->
                               C8_LegacyExpected(data.credentials)[2],
                           refresh_token |-> None,
                           expires_in |-> 3600])
                 ELSE ret.kind = "raise"
            ELSE ret = Raise("ValueError", "Invalid credentials file format")

\* A load of a legacy file returned the inner username and credentials.
C8_Witness ==
    /\ last.op = "load"
    /\ last.file.exists
    /\ DOMAIN last.file.json = {"credentials", "type"}
    /\ ret.kind = "return"
    /\ ret.value.username = "alice"
    /\ ret.value.access_token = <<116, 111, 107, 49, 50, 51>>

====
